---- MODULE Spec2Model ----
(***************************************************************************)
(* Model of src/khoj/processor/tools/run_code.py: the run_code pipeline    *)
(* (code synthesis, input-file resolution, sandboxed execution).           *)
(*                                                                         *)
(* Text is a sequence of one-character strings, so that strip, basename    *)
(* and the fence removal act on characters.  File contents are sequences   *)
(* of code points, so that the UTF-8 and base64 encodings are computed.    *)
(* JSON values are tagged records of one shape (JStr, JBool, ...) and JSON *)
(* objects / Python dicts are functions from keys to such values.          *)
(***************************************************************************)
EXTENDS Integers, Sequences, FiniteSets, TLC

VARIABLES
    query,            \* run_code argument: the user's query
    user,             \* run_code argument: the owner of the files
    send_status_func, \* run_code argument: 0 = None, n > 0 = a listener yielding n events per call
    file_store,       \* the FileObject table read by the lookups
    pc,               \* position of the run_code coroutine
    response,         \* generate_python_code: the model's reply, kept until the sandbox is called
    code,             \* run_code local: the generated code
    input_files,      \* run_code local: as returned by generate_python_code
    input_links,      \* run_code local: as returned by generate_python_code
    user_input_files, \* run_code local: the FileObjects found so far
    input_data,       \* run_code local: the artifacts built from user_input_files
    data,             \* execute_sandboxed_python: the JSON payload that was posted
    resp,             \* execute_sandboxed_python: the HTTP response received
    result,           \* the dict execute_sandboxed_python returned
    emitted,          \* the items run_code has yielded, in order
    failure,          \* the exception run_code raised, if any
    log,              \* the collaborator calls and yields so far, in order, each with its argument
    tracer,           \* run_code argument: the dict object the parameter is bound to
    heap,             \* the contents of the tracer dict objects
    other,            \* a second invocation of run_code, running concurrently
    pair              \* two runs in sequence: which run this is, what the first one ended with

\* what run_code never touches after the call has bound its arguments
context == << tracer, other, pair >>

vars == << query, user, send_status_func, file_store, pc, response, code,
           input_files, input_links, user_input_files, input_data, data,
           resp, result, emitted, failure, log, tracer, heap, other, pair >>

----------------------------------------------------------------------------
(* Bounds of the model *)

MaxCodeLen == 2

MaxFiles == 2

MaxStatusEvents == 1

SeqsUpTo(S, n) == UNION { [1..k -> S] : k \in 0..n }

----------------------------------------------------------------------------
(* JSON values and dicts *)

JStr(s) == [j |-> "str", b |-> FALSE, s |-> s, l |-> <<>>]

JBool(b) == [j |-> "bool", b |-> b, s |-> <<>>, l |-> <<>>]

JNum == [j |-> "num", b |-> FALSE, s |-> <<>>, l |-> <<>>]

JNull == [j |-> "null", b |-> FALSE, s |-> <<>>, l |-> <<>>]

JList(l) == [j |-> "list", b |-> FALSE, s |-> <<>>, l |-> l]

Absent == [j |-> "absent", b |-> FALSE, s |-> <<>>, l |-> <<>>]

EmptyDict == [k \in {} |-> JNull]

\* dict.get(key, default)
dict_get(d, k, default) == IF k \in DOMAIN d THEN d[k] ELSE default

\* d[key] = value
dict_set(d, k, v) == [x \in DOMAIN d \cup {k} |-> IF x = k THEN v ELSE d[x]]

\* a pop that returns the value and leaves the key in the dict
dict_without_keeps_key(d, k) == d

\* the dict left by d.pop(key)
dict_without(d, k) == [x \in DOMAIN d \ {k} |-> d[x]]

----------------------------------------------------------------------------
(* Text functions *)

RECURSIVE lstrip(_)
lstrip(s) == IF Len(s) > 0 /\ Head(s) = " " THEN lstrip(Tail(s)) ELSE s

RECURSIVE rstrip(_)
rstrip(s) == IF Len(s) > 0 /\ s[Len(s)] = " " THEN rstrip(SubSeq(s, 1, Len(s) - 1)) ELSE s

\* str.strip()
strip(s) == rstrip(lstrip(s))

\* one token for the markdown fence that opens a python code block (three
\* backquotes and the word python), and one for the three backquotes closing it
FenceOpen == "<fence python>"

FenceClose == "<fence>"

\* str.removeprefix / str.removesuffix of a one-token fence
removeprefix(s, t) == IF Len(s) > 0 /\ Head(s) = t THEN Tail(s) ELSE s

removesuffix(s, t) == IF Len(s) > 0 /\ s[Len(s)] = t THEN SubSeq(s, 1, Len(s) - 1) ELSE s

\* khoj.processor.conversation.utils.clean_code_python: strip, then drop the fences
clean_code_python(c) == removesuffix(removeprefix(strip(c), FenceOpen), FenceClose)

\* khoj.utils.helpers.is_none_or_empty, on a string
is_none_or_empty(s) == Len(s) = 0

Digit == <<"0", "1", "2", "3", "4", "5", "6", "7", "8", "9">>

\* str(n) of a non-negative integer, as in f"{response.status}"
RECURSIVE int_str(_)
int_str(n) == IF n < 10 THEN <<Digit[n + 1]>> ELSE int_str(n \div 10) \o <<Digit[(n % 10) + 1]>>

\* os.path.basename: what follows the last "/"
basename(p) ==
    IF \E i \in 1..Len(p) : p[i] = "/"
    THEN LET last == CHOOSE i \in 1..Len(p) :
                        p[i] = "/" /\ \A k \in (i + 1)..Len(p) : p[k] # "/"
         IN  SubSeq(p, last + 1, Len(p))
    ELSE p

\* str.encode("utf-8") of a sequence of code points below 65536
RECURSIVE utf8_encode(_)
utf8_encode(t) ==
    IF Len(t) = 0 THEN <<>>
    ELSE LET cp == Head(t)
             bytes == IF cp < 128 THEN <<cp>>
                      ELSE IF cp < 2048 THEN <<192 + (cp \div 64), 128 + (cp % 64)>>
                      ELSE <<224 + (cp \div 4096), 128 + ((cp \div 64) % 64), 128 + (cp % 64)>>
         IN  bytes \o utf8_encode(Tail(t))

B64Alphabet ==
    << "A", "B", "C", "D", "E", "F", "G", "H", "I", "J", "K", "L", "M",
       "N", "O", "P", "Q", "R", "S", "T", "U", "V", "W", "X", "Y", "Z",
       "a", "b", "c", "d", "e", "f", "g", "h", "i", "j", "k", "l", "m",
       "n", "o", "p", "q", "r", "s", "t", "u", "v", "w", "x", "y", "z",
       "0", "1", "2", "3", "4", "5", "6", "7", "8", "9", "+", "/" >>

\* base64.b64encode(bytes).decode("utf-8")
RECURSIVE b64encode(_)
b64encode(bytes) ==
    IF Len(bytes) = 0 THEN <<>>
    ELSE IF Len(bytes) = 1 THEN
        << B64Alphabet[(bytes[1] \div 4) + 1],
           B64Alphabet[((bytes[1] % 4) * 16) + 1], "=", "=" >>
    ELSE IF Len(bytes) = 2 THEN
        << B64Alphabet[(bytes[1] \div 4) + 1],
           B64Alphabet[((bytes[1] % 4) * 16) + (bytes[2] \div 16) + 1],
           B64Alphabet[((bytes[2] % 16) * 4) + 1], "=" >>
    ELSE
        << B64Alphabet[(bytes[1] \div 4) + 1],
           B64Alphabet[((bytes[1] % 4) * 16) + (bytes[2] \div 16) + 1],
           B64Alphabet[((bytes[2] % 16) * 4) + (bytes[3] \div 64) + 1],
           B64Alphabet[(bytes[3] % 64) + 1] >>
        \o b64encode(SubSeq(bytes, 4, Len(bytes)))

----------------------------------------------------------------------------
(* Exceptions and results of calls *)

Exc(type, text) == [type |-> type, text |-> text]

NoExc == Exc("", "")

Raised(e) ==
    [raised |-> TRUE, exc |-> e, code |-> <<>>, input_files |-> JNull,
     input_links |-> JNull, value |-> EmptyDict]

\* generate_python_code's return: the tuple (code, input_files, input_links)
Returned3(c, f, l) ==
    [raised |-> FALSE, exc |-> NoExc, code |-> c, input_files |-> f,
     input_links |-> l, value |-> EmptyDict]

\* execute_sandboxed_python's return: a dict
ReturnedDict(d) ==
    [raised |-> FALSE, exc |-> NoExc, code |-> <<>>, input_files |-> JNull,
     input_links |-> JNull, value |-> d]

\* run_code's raise ValueError(f"Failed to ... code for {query} with error: {e}"),
\* raised in an except block, so the cause is its __context__
NoFailure == [raised |-> FALSE, type |-> "", msg |-> <<>>, context |-> NoExc]

\* the wrapping message without the query
GenerateFailure_without_query(q, e) ==
    [raised |-> TRUE, type |-> "ValueError",
     msg |-> <<"Failed to generate code with error: ", e.text>>,
     context |-> e]

GenerateFailure(q, e) ==
    [raised |-> TRUE, type |-> "ValueError",
     msg |-> <<"Failed to generate code for ", q, " with error: ", e.text>>,
     context |-> e]

\* the sandbox call's exception re-raised as it is
RunFailure_reraised(q, e) ==
    [raised |-> TRUE, type |-> e.type, msg |-> <<e.text>>, context |-> NoExc]

RunFailure(q, e) ==
    [raised |-> TRUE, type |-> "ValueError",
     msg |-> <<"Failed to run code for ", q, " with error: ", e.text>>,
     context |-> e]

\* an exception that leaves run_code outside its two try blocks
Unwrapped(e) == [raised |-> TRUE, type |-> e.type, msg |-> <<e.text>>, context |-> NoExc]

----------------------------------------------------------------------------
(* CodeSynthesizer: generate_python_code *)

\* the model's reply: text that json.loads rejects, a JSON array, or a JSON object
NoReply == [kind |-> "none", obj |-> EmptyDict]

\* clean_json, then json.loads: the parsed reply, or JSONDecodeError
json_loads(r) ==
    IF r.kind = "malformed"
    THEN [raised |-> TRUE, exc |-> Exc("JSONDecodeError", "Expecting value"), kind |-> "", obj |-> EmptyDict]
    ELSE [raised |-> FALSE, exc |-> NoExc, kind |-> r.kind, obj |-> r.obj]

\* the emptiness test made on the code before it is stripped
generate_python_code_tests_unstripped(r) ==
    LET parsed == json_loads(r) IN
    IF parsed.raised THEN Raised(parsed.exc)
    ELSE IF parsed.kind # "object"
    THEN Raised(Exc("AttributeError", "'list' object has no attribute 'get'"))
    ELSE LET c == dict_get(parsed.obj, "code", JStr(<<>>)) IN
         IF c.j # "str"
         THEN Raised(Exc("AttributeError", "object has no attribute 'strip'"))
         ELSE IF is_none_or_empty(c.s)
              THEN Raised(Exc("ValueError", ""))
              ELSE Returned3(strip(c.s),
                             dict_get(parsed.obj, "input_files", JList(<<>>)),
                             dict_get(parsed.obj, "input_links", JList(<<>>)))

\* the code returned as the model wrote it, without .strip()
generate_python_code_without_strip(r) ==
    LET parsed == json_loads(r) IN
    IF parsed.raised THEN Raised(parsed.exc)
    ELSE IF parsed.kind # "object"
    THEN Raised(Exc("AttributeError", "'list' object has no attribute 'get'"))
    ELSE LET c == dict_get(parsed.obj, "code", JStr(<<>>)) IN
         IF c.j # "str"
         THEN Raised(Exc("AttributeError", "object has no attribute 'strip'"))
         ELSE IF is_none_or_empty(c.s)
              THEN Raised(Exc("ValueError", ""))
              ELSE Returned3(c.s,
                             dict_get(parsed.obj, "input_files", JList(<<>>)),
                             dict_get(parsed.obj, "input_links", JList(<<>>)))

\* lines 124-133, on the text the model returned
generate_python_code(r) ==
    LET parsed == json_loads(r) IN
    IF parsed.raised THEN Raised(parsed.exc)
    ELSE IF parsed.kind # "object"
    THEN Raised(Exc("AttributeError", "'list' object has no attribute 'get'"))
    ELSE LET c == dict_get(parsed.obj, "code", JStr(<<>>)) IN
         IF c.j # "str"
         THEN Raised(Exc("AttributeError", "object has no attribute 'strip'"))
         ELSE LET stripped == strip(c.s)
                  files == dict_get(parsed.obj, "input_files", JList(<<>>))
                  links == dict_get(parsed.obj, "input_links", JList(<<>>))
              IN  IF is_none_or_empty(stripped)
                  THEN Raised(Exc("ValueError", ""))
                  ELSE Returned3(stripped, files, links)

----------------------------------------------------------------------------
(* InputResolver: lines 60-71 of run_code *)

\* FileObjectAdapters.async_get_file_objects_by_name(user, file_name)
get_file_objects_by_name(store, u, name) ==
    SelectSeq(store, LAMBDA f : f.user = u /\ f.file_name = name)

\* the artifact named by the stored path instead of its basename
artifact_with_full_path(f) ==
    [filename |-> f.file_name, b64_data |-> b64encode(utf8_encode(f.raw_text))]

\* lines 66-70: the artifact of one FileObject
artifact(f) ==
    [filename |-> basename(f.file_name), b64_data |-> b64encode(utf8_encode(f.raw_text))]

\* lines 65-71: input_data built from user_input_files
build_input_data(files) == [i \in 1..Len(files) |-> artifact(files[i])]

----------------------------------------------------------------------------
(* SandboxClient: execute_sandboxed_python *)

NoData == [sent |-> FALSE, code |-> <<>>, files |-> <<>>]

NoResp == [kind |-> "none", status |-> 0, body_kind |-> "", body |-> EmptyDict]

HttpResp(status, body_kind, body) ==
    [kind |-> "http", status |-> status, body_kind |-> body_kind, body |-> body]

\* lines 141-143: the JSON payload
request_data(c, files) == [sent |-> TRUE, code |-> clean_code_python(c), files |-> files]

\* any 2xx status taken as success
status_ok_any_2xx(status) == status \in 200..299

\* line 147: the status the code takes as success
status_ok(status) == status = 200

\* lines 152-156
failed_result(cleaned_code, status) ==
    [x \in {"code", "success", "std_err"} |->
        CASE x = "code" -> JStr(cleaned_code)
          [] x = "success" -> JBool(FALSE)
          [] x = "std_err" -> JStr(<<"Failed to execute code with ">> \o int_str(status))]

\* the "code" field set only when the body has none (setdefault)
success_result_keeps_echo(cleaned_code, body) ==
    IF "code" \in DOMAIN body THEN body ELSE dict_set(body, "code", JStr(cleaned_code))

\* lines 148-150
success_result(cleaned_code, body) == dict_set(body, "code", JStr(cleaned_code))

\* a status other than 200 raised as an error (raise_for_status) instead of
\* being answered with the synthesized result
execute_sandboxed_python_raise_for_status(c, files, r) ==
    LET cleaned_code == clean_code_python(c) IN
    IF status_ok(r.status)
    THEN IF r.body_kind = "notjson"
         THEN Raised(Exc("ContentTypeError", "Attempt to decode JSON with unexpected mimetype"))
         ELSE IF r.body_kind # "object"
         THEN Raised(Exc("TypeError", "list indices must be integers or slices, not str"))
         ELSE ReturnedDict(success_result(cleaned_code, r.body))
    ELSE Raised(Exc("ClientResponseError", int_str(r.status)[1]))

\* lines 147-156, on the response to the POST
execute_sandboxed_python(c, files, r) ==
    LET cleaned_code == clean_code_python(c) IN
    IF status_ok(r.status)
    THEN IF r.body_kind = "notjson"
         THEN Raised(Exc("ContentTypeError", "Attempt to decode JSON with unexpected mimetype"))
         ELSE IF r.body_kind # "object"
         THEN Raised(Exc("TypeError", "list indices must be integers or slices, not str"))
         ELSE ReturnedDict(success_result(cleaned_code, r.body))
    ELSE ReturnedDict(failed_result(cleaned_code, r.status))

----------------------------------------------------------------------------
(* Inputs *)

Queries == {"add two numbers", "plot it"}

Users == {"u1", "u2"}

\* None, or a listener that yields 1..MaxStatusEvents events per call
Listeners == 0..MaxStatusEvents

CodeChars == {" ", "x", FenceOpen, FenceClose}

CodeTexts == SeqsUpTo(CodeChars, MaxCodeLen)

FileNames == {<<"d", "/", "a">>, <<"b">>}

\* the FileObject rows: u1 has two entries named d/a and one named b, u2 one named d/a
FileStore ==
    << [user |-> "u1", file_name |-> <<"d", "/", "a">>, raw_text |-> <<104, 105>>],
       [user |-> "u2", file_name |-> <<"d", "/", "a">>, raw_text |-> <<121, 111, 33>>],
       [user |-> "u1", file_name |-> <<"b">>, raw_text |-> <<>>],
       [user |-> "u1", file_name |-> <<"d", "/", "a">>, raw_text |-> <<233>>] >>

CodeFields == {Absent, JNum, JNull} \cup {JStr(t) : t \in CodeTexts}

FilesFields == {Absent, JNull} \cup {JList(l) : l \in SeqsUpTo(FileNames, MaxFiles)}

LinksFields == {Absent, JList(<< <<"https://x">> >>)}

\* the JSON object with the given fields, an Absent field being left out
reply_object(c, f, l) ==
    LET field(k) == CASE k = "code" -> c
                      [] k = "input_files" -> f
                      [] k = "input_links" -> l
    IN  [k \in {x \in {"code", "input_files", "input_links"} : field(x) # Absent} |-> field(k)]

Replies ==
    {[kind |-> "malformed", obj |-> EmptyDict], [kind |-> "array", obj |-> EmptyDict]}
    \cup {[kind |-> "object", obj |-> reply_object(c, f, l)] :
            c \in CodeFields, f \in FilesFields, l \in LinksFields}

Statuses == {200, 201, 500}

Bodies ==
    { [success |-> JBool(TRUE), std_out |-> JStr(<<"2", "\n">>)],
      [success |-> JBool(FALSE), std_err |-> JStr(<<"boom">>), code |-> JStr(<<"y">>)] }

Responses ==
    {HttpResp(st, "object", b) : st \in Statuses, b \in Bodies}
    \cup {HttpResp(st, k, EmptyDict) : st \in Statuses, k \in {"notjson", "array"}}

----------------------------------------------------------------------------
(* PipelineOrchestrator: run_code *)

\* {ChatEvent.STATUS: event}
StatusItem(msg) == [kind |-> "status", status |-> msg, mapping |-> EmptyDict]

\* the mapping keyed by a fixed word instead of the query
ResultItem_fixed_key(q, c, r) ==
    [kind |-> "result", status |-> <<>>,
     mapping |-> [k \in {"query"} |-> [code |-> c, results |-> r]]]

\* {query: {"code": code, "results": result}}
ResultItem(q, c, r) ==
    [kind |-> "result", status |-> <<>>,
     mapping |-> [k \in {q} |-> [code |-> c, results |-> r]]]

\* the status item is yielded even when no listener is registered
status_items_unconditional(listener, msg) ==
    [i \in 1..(IF listener = 0 THEN 1 ELSE listener) |-> StatusItem(msg)]

\* what a call of send_status_func(msg) makes run_code yield: nothing without a listener
status_items(listener, msg) == [i \in 1..listener |-> StatusItem(msg)]

LogEntry(op, name) == [op |-> op, name |-> name]

status_log(listener, op) == [i \in 1..listener |-> LogEntry(op, <<>>)]

\* the number of file-store lookups made so far
lookups_done == Cardinality({i \in 1..Len(log) : log[i].op = "lookup"})

\* the dict objects a tracer parameter can be bound to: the one made when
\* "def run_code" was evaluated (tracer: dict = {}, line 39), one the caller of
\* this invocation made, one the caller of the other invocation made
TracerObjects == {"default", "own", "other_own"}

EmptyHeap == [o \in TracerObjects |-> {}]

\* send_message_to_model_wrapper(..., tracer=tracer): the call records its
\* trace data in the dict it is handed
send_message_to_model_trace(t, q) == t \cup {q}

\* no second invocation
NoOther == [pc |-> "Absent", query |-> "", tracer |-> "default"]

\* the arguments and locals of a run, as a value
Snapshot ==
    [send_status_func |-> send_status_func, pc |-> pc, response |-> response,
     code |-> code, input_files |-> input_files, input_links |-> input_links,
     data |-> data, resp |-> resp, result |-> result, emitted |-> emitted,
     failure |-> failure, log |-> log]

NoSnapshot ==
    [send_status_func |-> 0, pc |-> "Idle", response |-> NoReply,
     code |-> <<>>, input_files |-> JNull, input_links |-> JNull,
     data |-> NoData, resp |-> NoResp, result |-> EmptyDict, emitted |-> <<>>,
     failure |-> NoFailure, log |-> <<>>]

\* a single run
NoPair == [run |-> 0, varied |-> "none", reply |-> NoReply, first |-> NoSnapshot]

\* run_code is called: arguments bound, nothing done yet
InitRun ==
    /\ query \in Queries
    /\ user \in Users
    /\ send_status_func \in Listeners
    /\ file_store = FileStore
    /\ pc = "Idle"
    /\ response = NoReply
    /\ code = <<>>
    /\ input_files = JNull
    /\ input_links = JNull
    /\ user_input_files = <<>>
    /\ input_data = <<>>
    /\ data = NoData
    /\ resp = NoResp
    /\ result = EmptyDict
    /\ emitted = <<>>
    /\ failure = NoFailure
    /\ log = <<>>

\* one invocation, relying on the default tracer
Init ==
    /\ InitRun
    /\ tracer = "default"
    /\ heap = EmptyHeap
    /\ other = NoOther
    /\ pair = NoPair

\* lines 41-47, 116-122: the "generate" status events, then the model is called
\* and handed the tracer
StartGenerate ==
    /\ pc = "Idle"
    /\ emitted' = emitted \o status_items(send_status_func,
                                <<"**Generate code snippet** for ", query>>)
    /\ log' = log \o status_log(send_status_func, "status:generate")
                  \o <<LogEntry("model", <<>>)>>
    /\ heap' = [heap EXCEPT ![tracer] = send_message_to_model_trace(@, query)]
    /\ pc' = "Generating"
    /\ UNCHANGED << context, query, user, send_status_func, file_store, response, code,
                    input_files, input_links, user_input_files, input_data,
                    data, resp, result, failure >>

\* line 116 returns the model's reply
ModelReturns ==
    /\ pc = "Generating"
    /\ \E r \in Replies : response' = r
    /\ pc' = "Parsing"
    /\ UNCHANGED << context, heap, query, user, send_status_func, file_store, code, input_files,
                    input_links, user_input_files, input_data, data, resp,
                    result, emitted, failure, log >>

\* line 116 raises; lines 57-58 wrap it
ModelRaises ==
    /\ pc = "Generating"
    /\ failure' = GenerateFailure(query, Exc("ConnectionError", "model unreachable"))
    /\ pc' = "Failed"
    /\ UNCHANGED << context, heap, query, user, send_status_func, file_store, response, code,
                    input_files, input_links, user_input_files, input_data,
                    data, resp, result, emitted, log >>

\* lines 124-133, then line 47 binds the tuple or lines 57-58 wrap the exception
ParseReply ==
    /\ pc = "Parsing"
    /\ LET g == generate_python_code(response) IN
        IF g.raised
        THEN /\ failure' = GenerateFailure(query, g.exc)
             /\ pc' = "Failed"
             /\ UNCHANGED << code, input_files, input_links >>
        ELSE /\ code' = g.code
             /\ input_files' = g.input_files
             /\ input_links' = g.input_links
             /\ pc' = "Resolving"
             /\ UNCHANGED failure
    /\ UNCHANGED << context, heap, query, user, send_status_func, file_store, response,
                    user_input_files, input_data, data, resp, result, emitted, log >>

\* the lookup takes the entries it finds out of the store
ResolveFile_removes_found ==
    /\ pc = "Resolving"
    /\ input_files.j = "list"
    /\ lookups_done < Len(input_files.l)
    /\ LET name == input_files.l[lookups_done + 1] IN
        /\ user_input_files' =
              user_input_files \o get_file_objects_by_name(file_store, user, name)
        /\ file_store' = SelectSeq(file_store,
                            LAMBDA f : ~(f.user = user /\ f.file_name = name))
        /\ log' = Append(log, LogEntry("lookup", name))
    /\ UNCHANGED << context, heap, query, user, send_status_func, pc, response, code,
                    input_files, input_links, input_data, data, resp, result,
                    emitted, failure >>

\* lines 63-64: one turn of the lookup loop
ResolveFile ==
    /\ pc = "Resolving"
    /\ input_files.j = "list"
    /\ lookups_done < Len(input_files.l)
    /\ LET name == input_files.l[lookups_done + 1] IN
        /\ user_input_files' =
              user_input_files \o get_file_objects_by_name(file_store, user, name)
        /\ log' = Append(log, LogEntry("lookup", name))
    /\ UNCHANGED << context, heap, query, user, send_status_func, file_store, pc, response, code,
                    input_files, input_links, input_data, data, resp, result,
                    emitted, failure >>

\* line 63 on an input_files that is not a list: TypeError, outside both try blocks
ResolveRaises ==
    /\ pc = "Resolving"
    /\ input_files.j # "list"
    /\ failure' = Unwrapped(Exc("TypeError", "'NoneType' object is not iterable"))
    /\ pc' = "Failed"
    /\ UNCHANGED << context, heap, query, user, send_status_func, file_store, response, code,
                    input_files, input_links, user_input_files, input_data,
                    data, resp, result, emitted, log >>

\* the request is skipped when files were asked for and none was found
RunCode_needs_artifacts ==
    /\ pc = "Resolving"
    /\ input_files.j = "list"
    /\ lookups_done = Len(input_files.l)
    /\ (Len(input_files.l) > 0 => user_input_files # <<>>)
    /\ input_data' = build_input_data(user_input_files)
    /\ emitted' = emitted \o status_items(send_status_func, <<"**Running code snippet**">>)
    /\ data' = request_data(code, input_data')
    /\ log' = log \o status_log(send_status_func, "status:running")
                  \o <<LogEntry("post", code)>>
    /\ response' = NoReply
    /\ pc' = "Executing"
    /\ UNCHANGED << context, heap, query, user, send_status_func, file_store, code,
                    input_files, input_links, user_input_files, resp, result,
                    failure >>

\* the request is posted before the "running" status events are emitted
RunCode_posts_before_status ==
    /\ pc = "Resolving"
    /\ input_files.j = "list"
    /\ lookups_done = Len(input_files.l)
    /\ input_data' = build_input_data(user_input_files)
    /\ emitted' = emitted \o status_items(send_status_func, <<"**Running code snippet**">>)
    /\ data' = request_data(code, input_data')
    /\ log' = log \o <<LogEntry("post", code)>>
                  \o status_log(send_status_func, "status:running")
    /\ response' = NoReply
    /\ pc' = "Executing"
    /\ UNCHANGED << context, heap, query, user, send_status_func, file_store, code,
                    input_files, input_links, user_input_files, resp, result,
                    failure >>

\* each input link is sent along as one more file
RunCode_attaches_links ==
    /\ pc = "Resolving"
    /\ input_files.j = "list"
    /\ lookups_done = Len(input_files.l)
    /\ input_data' = build_input_data(user_input_files)
            \o [i \in 1..Len(input_links.l) |->
                    [filename |-> input_links.l[i], b64_data |-> <<>>]]
    /\ emitted' = emitted \o status_items(send_status_func, <<"**Running code snippet**">>)
    /\ data' = request_data(code, input_data')
    /\ log' = log \o status_log(send_status_func, "status:running")
                  \o <<LogEntry("post", code)>>
    /\ response' = NoReply
    /\ pc' = "Executing"
    /\ UNCHANGED << context, heap, query, user, send_status_func, file_store, code,
                    input_files, input_links, user_input_files, resp, result,
                    failure >>

\* lines 65-79, 141-146: the artifacts, the "running" status events, then
\* execute_sandboxed_python(code, ...) builds the payload and posts it
RunCode ==
    /\ pc = "Resolving"
    /\ input_files.j = "list"
    /\ lookups_done = Len(input_files.l)
    /\ input_data' = build_input_data(user_input_files)
    /\ emitted' = emitted \o status_items(send_status_func, <<"**Running code snippet**">>)
    /\ data' = request_data(code, input_data')
    /\ log' = log \o status_log(send_status_func, "status:running")
                  \o <<LogEntry("post", code)>>
    /\ response' = NoReply
    /\ pc' = "Executing"
    /\ UNCHANGED << context, heap, query, user, send_status_func, file_store, code,
                    input_files, input_links, user_input_files, resp, result,
                    failure >>

\* line 146 raises (connection refused, DNS failure); lines 83-84 wrap it
SandboxRaises ==
    /\ pc = "Executing"
    /\ failure' = RunFailure(query, Exc("ClientConnectorError", "Cannot connect to host"))
    /\ pc' = "Failed"
    /\ UNCHANGED << context, heap, query, user, send_status_func, file_store, response, code,
                    input_files, input_links, user_input_files, input_data,
                    data, resp, result, emitted, log >>

\* a response other than 200 makes the request be posted again
SandboxResponds_with_retry ==
    /\ pc = "Executing"
    /\ \E r \in Responses :
        /\ resp' = r
        /\ LET ex == execute_sandboxed_python(code, input_data, r) IN
            IF ex.raised
            THEN /\ failure' = RunFailure(query, ex.exc)
                 /\ pc' = "Failed"
                 /\ UNCHANGED << code, result, emitted, log >>
            ELSE IF r.status # 200
            THEN /\ log' = Append(log, LogEntry("post", code))
                 /\ UNCHANGED << pc, code, result, emitted, failure >>
            ELSE /\ result' = ex.value
                 /\ code' = ex.value["code"].s
                 /\ emitted' = Append(emitted,
                        ResultItem(query, code', dict_without(ex.value, "code")))
                 /\ log' = Append(log, LogEntry("result", <<>>))
                 /\ pc' = "Completed"
                 /\ UNCHANGED failure
    /\ UNCHANGED << context, heap, query, user, send_status_func, file_store, response,
                    input_files, input_links, user_input_files, input_data, data >>

\* the mapping is yielded and a synthesized failure result is then raised as
\* an execution failure
SandboxResponds_raises_after_yield ==
    /\ pc = "Executing"
    /\ \E r \in Responses :
        /\ resp' = r
        /\ LET ex == execute_sandboxed_python(code, input_data, r) IN
            IF ex.raised
            THEN /\ failure' = RunFailure(query, ex.exc)
                 /\ pc' = "Failed"
                 /\ UNCHANGED << code, result, emitted, log >>
            ELSE /\ result' = ex.value
                 /\ code' = ex.value["code"].s
                 /\ emitted' = Append(emitted,
                        ResultItem(query, code', dict_without(ex.value, "code")))
                 /\ log' = Append(log, LogEntry("result", <<>>))
                 /\ IF r.status = 200
                    THEN pc' = "Completed" /\ UNCHANGED failure
                    ELSE /\ pc' = "Failed"
                         /\ failure' = RunFailure(query, Exc("ValueError", "sandbox failed"))
    /\ UNCHANGED << context, heap, query, user, send_status_func, file_store, response,
                    input_files, input_links, user_input_files, input_data, data >>

\* a response other than 200 is awaited again until a 200 arrives
SandboxResponds_polls_until_200 ==
    /\ pc = "Executing"
    /\ \E r \in Responses :
        /\ resp' = r
        /\ LET ex == execute_sandboxed_python(code, input_data, r) IN
            IF ex.raised
            THEN /\ failure' = RunFailure(query, ex.exc)
                 /\ pc' = "Failed"
                 /\ UNCHANGED << code, result, emitted, log >>
            ELSE IF r.status # 200
            THEN UNCHANGED << pc, code, result, emitted, failure, log >>
            ELSE /\ result' = ex.value
                 /\ code' = ex.value["code"].s
                 /\ emitted' = Append(emitted,
                        ResultItem(query, code', dict_without(ex.value, "code")))
                 /\ log' = Append(log, LogEntry("result", <<>>))
                 /\ pc' = "Completed"
                 /\ UNCHANGED failure
    /\ UNCHANGED << context, heap, query, user, send_status_func, file_store, response,
                    input_files, input_links, user_input_files, input_data, data >>

\* lines 146-156 on the response, then lines 79-84: pop "code", yield the mapping
SandboxResponds ==
    /\ pc = "Executing"
    /\ \E r \in Responses :
        /\ resp' = r
        /\ LET ex == execute_sandboxed_python(code, input_data, r) IN
            IF ex.raised
            THEN /\ failure' = RunFailure(query, ex.exc)
                 /\ pc' = "Failed"
                 /\ UNCHANGED << code, result, emitted, log >>
            ELSE IF "code" \notin DOMAIN ex.value
            THEN /\ failure' = RunFailure(query, Exc("KeyError", "'code'"))
                 /\ pc' = "Failed"
                 /\ result' = ex.value
                 /\ UNCHANGED << code, emitted, log >>
            ELSE /\ result' = ex.value
                 /\ code' = ex.value["code"].s
                 /\ emitted' = Append(emitted,
                        ResultItem(query, code', dict_without(ex.value, "code")))
                 /\ log' = Append(log, LogEntry("result", <<>>))
                 /\ pc' = "Completed"
                 /\ UNCHANGED failure
    /\ UNCHANGED << context, heap, query, user, send_status_func, file_store, response,
                    input_files, input_links, user_input_files, input_data, data >>

Next ==
    \/ StartGenerate
    \/ ModelReturns
    \/ ModelRaises
    \/ ParseReply
    \/ ResolveFile
    \/ ResolveRaises
    \/ RunCode
    \/ SandboxRaises
    \/ SandboxResponds

Spec == Init /\ [][Next]_vars

\* the coroutine is driven to its end: the consumer keeps iterating and every
\* awaited call returns or raises
LiveInit == Init /\ query = "plot it"

LiveSpec == LiveInit /\ [][Next]_vars /\ WF_vars(Next)

----------------------------------------------------------------------------
(* The collaborators awaited outside the two try blocks raise           *)

\* lines 42-44 or 74-76: the listener raises while its events are awaited
ListenerRaises ==
    /\ send_status_func > 0
    /\ \/ pc = "Idle"
       \/ /\ pc = "Resolving"
          /\ input_files.j = "list"
          /\ lookups_done = Len(input_files.l)
    /\ failure' = Unwrapped(Exc("RuntimeError", "listener failed"))
    /\ pc' = "Failed"
    /\ UNCHANGED << context, heap, query, user, send_status_func, file_store, response, code,
                    input_files, input_links, user_input_files, input_data,
                    data, resp, result, emitted, log >>

\* line 64: the lookup raises
LookupRaises ==
    /\ pc = "Resolving"
    /\ input_files.j = "list"
    /\ lookups_done < Len(input_files.l)
    /\ failure' = Unwrapped(Exc("OperationalError", "database is locked"))
    /\ pc' = "Failed"
    /\ UNCHANGED << context, heap, query, user, send_status_func, file_store, response, code,
                    input_files, input_links, user_input_files, input_data,
                    data, resp, result, emitted, log >>

FaultNext ==
    \/ Next
    \/ ListenerRaises
    \/ LookupRaises

\* every awaited call returns or raises, and the consumer keeps iterating
FaultSpec == LiveInit /\ [][FaultNext]_vars /\ WF_vars(FaultNext)

----------------------------------------------------------------------------
(* Two invocations in sequence, the second with one argument or one field  *)
(* of the model's reply changed: the listener, or input_links              *)

RunOver == pc \in {"Completed", "Failed"}

\* the replies the model gives in the two-run specification: code of each
\* kind (absent, null, empty, blank, plain, to be trimmed, fenced), every
\* input_files and input_links field
PairCodeTexts == {<<>>, <<" ">>, <<"x">>, <<" ", "x">>, <<FenceOpen, "x">>}

PairReplies ==
    {[kind |-> "malformed", obj |-> EmptyDict]}
    \cup {[kind |-> "object", obj |-> reply_object(c, f, l)] :
            c \in {Absent, JNull} \cup {JStr(t) : t \in PairCodeTexts},
            f \in FilesFields, l \in LinksFields}

\* the first run is called with a listener when the listener is what changes
PairInit ==
    /\ InitRun
    /\ query = "plot it"
    /\ tracer = "default"
    /\ heap = EmptyHeap
    /\ other = NoOther
    /\ \E v \in {"listener", "links"} :
          /\ v = "listener" => send_status_func > 0
          /\ pair = [run |-> 1, varied |-> v, reply |-> NoReply, first |-> NoSnapshot]

\* the reply with its input_links field replaced (or left out)
with_links(r, l) ==
    [kind |-> r.kind,
     obj |-> IF l = Absent THEN dict_without(r.obj, "input_links")
             ELSE dict_set(r.obj, "input_links", l)]

\* the replies the second run can get: the reply of the first run, or, when
\* input_links is what changes, that reply with another input_links field
SecondReplies ==
    IF pair.varied = "links" /\ pair.reply.kind = "object"
    THEN {with_links(pair.reply, l) :
            l \in LinksFields \ {dict_get(pair.reply.obj, "input_links", Absent)}}
    ELSE {pair.reply}

\* the steps of run_code itself
RunStep ==
    \/ StartGenerate
    \/ ParseReply
    \/ ResolveFile
    \/ ResolveRaises
    \/ RunCode

\* line 116 returns the model's reply to the first run, which is remembered
ModelRepliesFirst ==
    /\ pair.run = 1
    /\ pc = "Generating"
    /\ \E r \in PairReplies :
          /\ response' = r
          /\ pair' = [pair EXCEPT !.reply = r]
    /\ pc' = "Parsing"
    /\ UNCHANGED << tracer, heap, other, query, user, send_status_func, file_store,
                    code, input_files, input_links, user_input_files, input_data,
                    data, resp, result, emitted, failure, log >>

FirstRun ==
    /\ pair.run = 1
    /\ \/ RunStep
       \/ ModelRaises
       \/ SandboxRaises
       \/ SandboxResponds

\* run_code is called again with the same query and user, without the listener
\* when the listener is what changes
CallAgain ==
    /\ pair.run = 1
    /\ RunOver
    /\ pair' = [pair EXCEPT !.run = 2, !.first = Snapshot]
    /\ send_status_func' = IF pair.varied = "listener" THEN 0 ELSE send_status_func
    /\ pc' = "Idle"
    /\ response' = NoReply
    /\ code' = <<>>
    /\ input_files' = JNull
    /\ input_links' = JNull
    /\ user_input_files' = <<>>
    /\ input_data' = <<>>
    /\ data' = NoData
    /\ resp' = NoResp
    /\ result' = EmptyDict
    /\ emitted' = <<>>
    /\ failure' = NoFailure
    /\ log' = <<>>
    /\ UNCHANGED << query, user, file_store, tracer, heap, other >>

\* line 116 returns to the second run
ModelRepliesAgain ==
    /\ pair.run = 2
    /\ pc = "Generating"
    /\ pair.reply # NoReply
    /\ \E r \in SecondReplies : response' = r
    /\ pc' = "Parsing"
    /\ UNCHANGED << context, heap, query, user, send_status_func, file_store,
                    code, input_files, input_links, user_input_files, input_data,
                    data, resp, result, emitted, failure, log >>

\* the model and the sandbox answer the second run as they answered the first
SecondRun ==
    /\ pair.run = 2
    /\ \/ RunStep
       \/ ModelRaises /\ pair.reply = NoReply
       \/ SandboxRaises /\ pair.first.resp = NoResp
       \/ SandboxResponds /\ resp' = pair.first.resp

PairNext ==
    \/ ModelRepliesFirst
    \/ FirstRun
    \/ CallAgain
    \/ ModelRepliesAgain
    \/ SecondRun

PairSpec == PairInit /\ [][PairNext]_vars

----------------------------------------------------------------------------
(* Two invocations running concurrently.  The locals of a coroutine are its *)
(* own; the second invocation is followed through its suspension points and *)
(* by what it does to the objects both can reach: the tracer dict it hands  *)
(* to the model call and the file store it reads.                           *)

\* each caller passes a dict of its own or relies on the default (line 39)
ConcInit ==
    /\ InitRun
    /\ query = "plot it"
    /\ tracer \in {"default", "own"}
    /\ heap = EmptyHeap
    /\ \E t \in {"default", "other_own"} :
          other = [pc |-> "Idle", query |-> "add two numbers", tracer |-> t]
    /\ pair = NoPair

\* the steps of the other invocation leave this invocation's arguments and
\* locals alone
OtherFrame ==
    UNCHANGED << query, user, send_status_func, file_store, pc, response, code,
                 input_files, input_links, user_input_files, input_data, data,
                 resp, result, emitted, failure, log, tracer, pair >>

\* lines 41-56, 116-122: the other invocation calls the model with its tracer
OtherStartGenerate ==
    /\ other.pc = "Idle"
    /\ other' = [other EXCEPT !.pc = "Generating"]
    /\ heap' = [heap EXCEPT ![other.tracer] = send_message_to_model_trace(@, other.query)]
    /\ OtherFrame

\* lines 47-58: the model call of the other invocation returns or raises
OtherModelDone ==
    /\ other.pc = "Generating"
    /\ \E p \in {"Resolving", "Failed"} : other' = [other EXCEPT !.pc = p]
    /\ UNCHANGED heap
    /\ OtherFrame

\* lines 60-76: the other invocation reads the file store
OtherResolves ==
    /\ other.pc = "Resolving"
    /\ other' = [other EXCEPT !.pc = "Executing"]
    /\ UNCHANGED heap
    /\ OtherFrame

\* lines 77-84: the sandbox call of the other invocation returns or raises
OtherSandboxDone ==
    /\ other.pc = "Executing"
    /\ \E p \in {"Completed", "Failed"} : other' = [other EXCEPT !.pc = p]
    /\ UNCHANGED heap
    /\ OtherFrame

ConcNext ==
    \/ Next
    \/ OtherStartGenerate
    \/ OtherModelDone
    \/ OtherResolves
    \/ OtherSandboxDone

ConcSpec == ConcInit /\ [][ConcNext]_vars

----------------------------------------------------------------------------
(* Vocabulary of the properties *)

\* an HTTP success status: any 2xx
IsHttpSuccess(status) == status \in 200..299

\* the decimal text of the statuses the sandbox answers with
StatusText(status) ==
    CASE status = 200 -> <<"2", "0", "0">>
      [] status = 201 -> <<"2", "0", "1">>
      [] status = 500 -> <<"5", "0", "0">>

\* the sandbox answered with a JSON object
AnsweredObject == resp.kind = "http" /\ resp.body_kind = "object"

\* the body's fields, with "code" replaced by (or added as) the code that was sent
BodyWithSentCode ==
    [k \in DOMAIN resp.body \cup {"code"} |->
        IF k = "code" THEN JStr(data.code) ELSE resp.body[k]]

\* the result synthesized for a status that is not taken as success
SynthesizedFailure ==
    [code |-> JStr(data.code), success |-> JBool(FALSE),
     std_err |-> JStr(<<"Failed to execute code with ">> \o StatusText(resp.status))]

\* the positions of the result mappings among the emitted items
ResultPositions == {i \in 1..Len(emitted) : emitted[i].kind = "result"}

\* the last emitted item's mapping
LastMapping == emitted[Len(emitted)].mapping

----------------------------------------------------------------------------
(* C1 *)

\* C1 as stated: for every response with a success (2xx) status and a JSON
\* object body, execute_sandboxed_python returns exactly the body's fields with
\* "code" set to the normalized code that was sent.
C1_AsStated ==
    (AnsweredObject /\ IsHttpSuccess(resp.status)) => result = BodyWithSentCode

\* C1 amended: for every response with status 200 and a JSON object body,
\* execute_sandboxed_python returns exactly the body's fields with "code" set to
\* the normalized code that was sent; the body's own "code" never survives.
C1_Status200ResultIsBodyWithSentCode ==
    (AnsweredObject /\ resp.status = 200) =>
        /\ DOMAIN result = DOMAIN resp.body \cup {"code"}
        /\ result["code"] = JStr(data.code)
        /\ \A k \in DOMAIN resp.body \ {"code"} : result[k] = resp.body[k]

\* a 200 response whose body echoes a code different from the one sent
C1_Witness ==
    /\ AnsweredObject /\ resp.status = 200
    /\ "code" \in DOMAIN resp.body
    /\ resp.body["code"] # JStr(data.code)
    /\ pc = "Completed"

----------------------------------------------------------------------------
(* C2 *)

\* C2 as stated: the synthesized failure result is returned for every
\* non-success HTTP status and only for those; no response with a success (2xx)
\* status is turned into it.
C2_AsStated ==
    resp.kind = "http" =>
        ((result = SynthesizedFailure) <=> ~IsHttpSuccess(resp.status))

\* C2 amended: the synthesized failure result, embedding the response's own
\* status, is returned for every status other than 200 (other 2xx statuses
\* included) and only for those.
C2_SynthesizedFailureIffNot200 ==
    resp.kind = "http" =>
        ((result = SynthesizedFailure) <=> resp.status # 200)

\* a 201 response with a JSON object body, answered with the synthesized failure
C2_Witness ==
    /\ AnsweredObject /\ resp.status = 201
    /\ result["std_err"].s = <<"Failed to execute code with ", "2", "0", "1">>
    /\ result["success"] = JBool(FALSE)

----------------------------------------------------------------------------
(* C3 *)

\* C3 as stated: when run_code completes, the results of the emitted mapping
\* hold every field of the sandbox result, a "code" field equal to the code
\* that was sent included.
C3_AsStated ==
    pc = "Completed" =>
        /\ "code" \in DOMAIN LastMapping[query].results
        /\ LastMapping[query].results = result

\* C3 amended: when run_code completes, the results of the emitted mapping
\* hold every field of the sandbox result except "code", which is removed from
\* results and is the mapping's top-level code, equal to the code that was sent.
C3_ResultsAreResultWithoutCode ==
    pc = "Completed" =>
        /\ DOMAIN LastMapping[query].results = DOMAIN result \ {"code"}
        /\ \A k \in DOMAIN result \ {"code"} : LastMapping[query].results[k] = result[k]
        /\ LastMapping[query].code = data.code

\* the spec's example: 200 with {success: true, std_out: "2\n"}
C3_Witness ==
    /\ pc = "Completed"
    /\ resp.status = 200
    /\ resp.body = [success |-> JBool(TRUE), std_out |-> JStr(<<"2", "\n">>)]
    /\ DOMAIN LastMapping[query].results = {"success", "std_out"}

----------------------------------------------------------------------------
(* C4 *)

\* C4: every Completed invocation has emitted exactly one result mapping, the
\* last item, whose only key is the query and whose top-level code is the
\* normalized code that was posted to the sandbox.
C4_OneMappingKeyedByQueryWithSentCode ==
    pc = "Completed" =>
        /\ ResultPositions = {Len(emitted)}
        /\ DOMAIN LastMapping = {query}
        /\ data.sent
        /\ LastMapping[query].code = data.code

\* completed with a code that differs from the text the synthesizer returned
\* and from the code the sandbox echoed
C4_Witness ==
    /\ pc = "Completed"
    /\ \E i \in 1..Len(log) : log[i].op = "post" /\ log[i].name # data.code
    /\ AnsweredObject /\ resp.status = 200
    /\ "code" \in DOMAIN resp.body /\ resp.body["code"] # JStr(data.code)
    /\ LastMapping[query].code = data.code

----------------------------------------------------------------------------
(* C5 *)

\* every character of s is a space (the empty text included)
IsBlank(s) == \A i \in 1..Len(s) : s[i] = " "

\* a reply on which synthesis has to fail: not a JSON object, or an object whose
\* "code" is missing, is not a string, or is empty or whitespace-only
MustFail(r) ==
    \/ r.kind # "object"
    \/ "code" \notin DOMAIN r.obj
    \/ r.obj["code"].j # "str"
    \/ IsBlank(r.obj["code"].s)

\* run_code raised the failure that wraps a synthesis error
GenerationFailed == failure.raised /\ failure.msg[1] = "Failed to generate code for "

\* nothing after the Generating phase has happened: no lookup, no request, no
\* "running" status and no result mapping
NoLaterStage ==
    /\ ~data.sent
    /\ resp = NoResp
    /\ user_input_files = <<>>
    /\ \A i \in 1..Len(log) : log[i].op \in {"status:generate", "model"}
    /\ \A i \in 1..Len(emitted) :
          /\ emitted[i].kind = "status"
          /\ emitted[i].status = <<"**Generate code snippet** for ", query>>

\* C5: when code synthesis raises (the model call raises, or the reply is one on
\* which synthesis has to fail), run_code ends in Failed with a ValueError that
\* carries the query and the cause, no later stage has run (no lookup, no
\* request, no "running" status, no result mapping), and Failed is terminal.
C5_SynthesisFailureIsWrappedAndTerminal ==
    [][ /\ pc # "Failed"
        /\ ( \/ (pc = "Generating" /\ pc' # "Parsing")
             \/ (pc = "Parsing" /\ MustFail(response)) )
           => /\ pc' = "Failed"
              /\ failure'.raised
              /\ failure'.type = "ValueError"
              /\ failure'.context # NoExc
              /\ failure'.msg = <<"Failed to generate code for ", query,
                                  " with error: ", failure'.context.text>>
              /\ NoLaterStage' ]_vars

\* the model's reply omitted "code" and run_code failed without a request
C5_Witness ==
    /\ pc = "Failed"
    /\ response.kind = "object"
    /\ "code" \notin DOMAIN response.obj
    /\ GenerationFailed
    /\ failure.msg[2] = query
    /\ NoLaterStage

----------------------------------------------------------------------------
(* C6 *)

\* C6: whenever the sandbox answers, with a success status whose body reports
\* success true or false or with a non-success status, run_code is Completed:
\* no failure is raised and the last item emitted is the result mapping, whose
\* results are success = false and std_err = "Failed to execute code with
\* <status>" in the non-success case.
C6_AnsweredRequestCompletes ==
    ( /\ resp.kind = "http"
      /\ \/ ~IsHttpSuccess(resp.status)
         \/ (resp.body_kind = "object" /\ "success" \in DOMAIN resp.body) )
    => /\ pc = "Completed"
       /\ ~failure.raised
       /\ emitted[Len(emitted)].kind = "result"
       /\ query \in DOMAIN LastMapping
       /\ ~IsHttpSuccess(resp.status) =>
            /\ LastMapping[query].results["success"] = JBool(FALSE)
            /\ LastMapping[query].results["std_err"] =
                 JStr(<<"Failed to execute code with ">> \o StatusText(resp.status))

\* the sandbox answered 500 and run_code completed
C6_Witness ==
    /\ resp.kind = "http" /\ resp.status = 500
    /\ pc = "Completed"
    /\ LastMapping[query].results["std_err"].s =
          <<"Failed to execute code with ", "5", "0", "0">>

----------------------------------------------------------------------------
(* C7 *)

\* C7: when the call to the sandbox raises (no response is received), run_code
\* ends in Failed with a ValueError wrapped like a generation failure, carrying
\* the query and the cause, and no result mapping has been emitted.
C7_TransportFailureIsWrapped ==
    [][ (pc = "Executing" /\ resp' = NoResp)
        => /\ pc' = "Failed"
           /\ failure'.raised
           /\ failure'.type = "ValueError"
           /\ failure'.context # NoExc
           /\ failure'.msg = <<"Failed to run code for ", query,
                               " with error: ", failure'.context.text>>
           /\ \A i \in 1..Len(emitted') : emitted'[i].kind # "result" ]_vars

\* the request was sent, no response came, and run_code failed
C7_Witness ==
    /\ pc = "Failed"
    /\ data.sent
    /\ resp = NoResp
    /\ failure.context.type = "ClientConnectorError"

----------------------------------------------------------------------------
(* C8 *)

\* the model has replied and the reply has been parsed
ReplyParsed == response.kind # "none" /\ pc \in {"Resolving", "Failed"}

\* C8: generate_python_code raises, and binds no program, for every reply that
\* is not a JSON object and for every JSON object whose "code" is missing, not a
\* string, or empty or whitespace-only; a returned program's code is not empty.
C8_InvalidReplyRaises ==
    /\ (ReplyParsed /\ MustFail(response)) =>
          /\ pc = "Failed"
          /\ GenerationFailed
          /\ code = <<>>
          /\ input_files = JNull
    /\ pc \in {"Resolving", "Executing"} => Len(code) > 0

\* a whitespace-only code made synthesis fail
C8_Witness ==
    /\ pc = "Failed"
    /\ response.kind = "object"
    /\ "code" \in DOMAIN response.obj
    /\ response.obj["code"] = JStr(<<" ">>)
    /\ GenerationFailed

----------------------------------------------------------------------------
(* C9 *)

\* t is s without its leading and trailing spaces
IsTrimOf(t, s) ==
    /\ Len(t) > 0 => (t[1] # " " /\ t[Len(t)] # " ")
    /\ \E i \in 1..(Len(s) + 1) :
          /\ i + Len(t) - 1 <= Len(s)
          /\ \A k \in 1..(i - 1) : s[k] = " "
          /\ \A k \in 1..Len(t) : s[i + k - 1] = t[k]
          /\ \A k \in (i + Len(t))..Len(s) : s[k] = " "

\* the field as the reply gives it, or the empty list when the key is absent
GivenOrEmptyList(obj, k) == IF k \in DOMAIN obj THEN obj[k] ELSE JList(<<>>)

\* generate_python_code returned the reply's code trimmed, with the defaults
ReturnedFromReply ==
    /\ ~GenerationFailed
    /\ IsTrimOf(code, response.obj["code"].s)
    /\ input_files = GivenOrEmptyList(response.obj, "input_files")
    /\ input_links = GivenOrEmptyList(response.obj, "input_links")

\* C9 as stated: for every reply that is a JSON object with a non-empty string
\* "code", generate_python_code returns the code trimmed, and input_files and
\* input_links as given or the empty list when absent.
C9_AsStated ==
    ( /\ ReplyParsed
      /\ response.kind = "object"
      /\ "code" \in DOMAIN response.obj
      /\ response.obj["code"].j = "str"
      /\ Len(response.obj["code"].s) > 0 )
    => ReturnedFromReply

\* C9 amended: for every reply that is a JSON object whose "code" is a string
\* that is not empty after trimming (not whitespace-only), generate_python_code
\* returns the code trimmed, and input_files and input_links as given or the
\* empty list when absent.
C9_NonBlankCodeIsReturnedTrimmed ==
    (ReplyParsed /\ ~MustFail(response)) => ReturnedFromReply

\* a reply with a space before the code and no input_files key
C9_Witness ==
    /\ pc = "Resolving"
    /\ response.kind = "object"
    /\ DOMAIN response.obj = {"code", "input_links"}
    /\ response.obj["code"] = JStr(<<" ", "x">>)
    /\ code = <<"x">>
    /\ input_files = JList(<<>>)
    /\ input_links = response.obj["input_links"]

----------------------------------------------------------------------------
(* C10 *)

\* the artifacts of a user's stored entries of one name, in stored order, with
\* the base64 text of each entry written out
KnownArtifacts(u, name) ==
    CASE u = "u1" /\ name = <<"d", "/", "a">> ->
            << [filename |-> <<"a">>, b64_data |-> <<"a", "G", "k", "=">>],
               [filename |-> <<"a">>, b64_data |-> <<"w", "6", "k", "=">>] >>
      [] u = "u1" /\ name = <<"b">> ->
            << [filename |-> <<"b">>, b64_data |-> <<>>] >>
      [] u = "u2" /\ name = <<"d", "/", "a">> ->
            << [filename |-> <<"a">>, b64_data |-> <<"e", "W", "8", "h">>] >>
      [] OTHER -> <<>>

RECURSIVE ArtifactsOf(_, _)
ArtifactsOf(u, names) ==
    IF Len(names) = 0 THEN <<>>
    ELSE KnownArtifacts(u, Head(names)) \o ArtifactsOf(u, Tail(names))

\* C10: the artifact list sent to the sandbox is, for the requested names in
\* order, the concatenation of one artifact per stored entry of that user with
\* that name, each with the basename as filename and the text base64-encoded; a
\* name without a stored match adds nothing and resolution raises no error.
C10_ArtifactsPerStoredEntryInOrder ==
    /\ data.sent =>
          /\ input_files.j = "list"
          /\ data.files = ArtifactsOf(user, input_files.l)
    /\ (input_files.j = "list" /\ failure.raised) =>
          (data.sent /\ failure.msg[1] = "Failed to run code for ")

\* u2 asks for b (no stored entry) and d/a (one entry): one artifact is sent
C10_Witness ==
    /\ data.sent
    /\ user = "u2"
    /\ input_files = JList(<< <<"b">>, <<"d", "/", "a">> >>)
    /\ data.files = << [filename |-> <<"a">>, b64_data |-> <<"e", "W", "8", "h">>] >>

----------------------------------------------------------------------------
(* C11 *)

\* synthesis returned a valid program: trimmed non-empty code and a list of names
ValidProgram == pc = "Resolving" /\ input_files.j = "list" /\ code # <<>>

\* the sandbox request of this invocation has been sent
RequestSent == data.sent /\ \E i \in 1..Len(log) : log[i].op = "post"

----------------------------------------------------------------------------
(* C12 *)

\* the phase a control point belongs to
PhaseOf(p) ==
    CASE p = "Idle" -> 0
      [] p \in {"Generating", "Parsing"} -> 1
      [] p = "Resolving" -> 2
      [] p = "Executing" -> 3
      [] p \in {"Completed", "Failed"} -> 4

\* the place of a logged operation in the pipeline
OpRank(op) ==
    CASE op = "status:generate" -> 1
      [] op = "model" -> 2
      [] op = "lookup" -> 3
      [] op = "status:running" -> 4
      [] op = "post" -> 5
      [] op = "result" -> 6

\* how often an operation was logged
OpCount(l, op) == Cardinality({i \in 1..Len(l) : l[i].op = op})

\* no logged operation is followed by one of an earlier place
InPipelineOrder(l) ==
    \A i, j \in 1..Len(l) : i < j => OpRank(l[i].op) <= OpRank(l[j].op)

\* the operations logged by the step
NewOps == {log'[i].op : i \in (Len(log) + 1)..Len(log')}

\* C12: the phases occur only in the order Generating, Resolving, Executing
\* and none is re-entered; the model call is over before any lookup and all
\* lookups are over before the sandbox request; an invocation makes at most one
\* model call and at most one POST to the sandbox.
C12_PhasesInOrderOneCallOnePost ==
    [][ /\ PhaseOf(pc') >= PhaseOf(pc)
        /\ PhaseOf(pc') <= PhaseOf(pc) + 1 \/ pc' = "Failed"
        /\ InPipelineOrder(log')
        /\ OpCount(log', "model") <= 1
        /\ OpCount(log', "post") <= 1
        /\ "model" \in NewOps => PhaseOf(pc) = 0 /\ PhaseOf(pc') = 1
        /\ "lookup" \in NewOps => PhaseOf(pc) = 2 /\ response # NoReply
        /\ "post" \in NewOps =>
              /\ PhaseOf(pc) = 2 /\ PhaseOf(pc') = 3
              /\ OpCount(log, "lookup") = Len(input_files.l)
      ]_vars

\* a completed run with a model call, two lookups and one request
C12_Witness ==
    /\ pc = "Completed"
    /\ OpCount(log, "model") = 1
    /\ OpCount(log, "lookup") = 2
    /\ OpCount(log, "post") = 1

----------------------------------------------------------------------------
(* C13 *)

\* the positions in the log of an operation
OpPositions(op) == {i \in 1..Len(log) : log[i].op = op}

\* item i is a "generating code" status event, item i is a "running code" one
IsGeneratingEvent(i) ==
    emitted[i].kind = "status" /\ emitted[i].status[1] = "**Generate code snippet** for "

IsRunningEvent(i) ==
    emitted[i].kind = "status" /\ emitted[i].status[1] = "**Running code snippet**"

\* C13: with a listener registered, every "generating code" status event is
\* emitted before the model call, every "running code" status event after the
\* last lookup and before the sandbox request, and the result mapping, if any,
\* is the last item; no "running code" event precedes a "generating code" one.
C13_StatusEventsAroundTheCalls ==
    send_status_func > 0 =>
        /\ \A s \in OpPositions("status:generate") :
              \A m \in OpPositions("model") : s < m
        /\ OpPositions("model") # {} =>
              Cardinality(OpPositions("status:generate")) = send_status_func
        /\ \A s \in OpPositions("status:running") :
              /\ \A l \in OpPositions("lookup") \cup OpPositions("model") : l < s
              /\ \A p \in OpPositions("post") : s < p
              /\ OpCount(log, "lookup") = Len(input_files.l)
        /\ OpPositions("post") # {} =>
              Cardinality(OpPositions("status:running")) = send_status_func
        /\ \A i \in 1..Len(emitted) :
              \/ IsGeneratingEvent(i) /\ i <= Cardinality(OpPositions("status:generate"))
              \/ IsRunningEvent(i)
                    /\ i > Cardinality(OpPositions("status:generate"))
                    /\ \A j \in 1..Len(emitted) : IsGeneratingEvent(j) => j < i
              \/ emitted[i].kind = "result" /\ i = Len(emitted)
                    /\ OpPositions("result") = {Len(log)}
        /\ Cardinality({i \in 1..Len(emitted) : emitted[i].kind = "status"})
              = Cardinality(OpPositions("status:generate") \cup OpPositions("status:running"))

\* a listener saw a generating event, then a running event, then the mapping
C13_Witness ==
    /\ send_status_func > 0
    /\ pc = "Completed"
    /\ Len(emitted) = 2 * send_status_func + 1
    /\ IsGeneratingEvent(1)
    /\ IsRunningEvent(send_status_func + 1)
    /\ emitted[Len(emitted)].kind = "result"
    /\ OpCount(log, "lookup") > 0

----------------------------------------------------------------------------
(* C16 *)

\* C16: the pipeline never changes the file store: run_code only reads it, so
\* every entry (user, name, content) is the same after every step of every
\* invocation in a sequence of invocations, completed or failed.
C16_FileStoreUnchanged == [][file_store' = file_store]_vars

\* two invocations are over, both looked files up and found entries, the first
\* one failed, and the store is the initial one
C16_Witness ==
    /\ pair.run = 2
    /\ pair.first.pc = "Failed"
    /\ OpCount(pair.first.log, "lookup") > 0
    /\ RunOver
    /\ user_input_files # <<>>
    /\ OpCount(log, "lookup") = Len(input_files.l)
    /\ file_store = FileStore

----------------------------------------------------------------------------
(* C18 *)

\* the failure raised is the wrapped execution failure
ExecutionFailed ==
    failure.raised /\ failure.type = "ValueError"
        /\ failure.msg[1] = "Failed to run code for "

\* execute_sandboxed_python came back with a result dict
SandboxReturnedResult == result # EmptyDict

\* C18: Completed and Failed are mutually exclusive terminal states: no failure
\* is raised once the result mapping has been emitted, no mapping is emitted
\* in an invocation that raises, and an execution failure is raised only when
\* the sandbox call did not return a result (the request raised, or the
\* response could not be turned into a result).
C18_CompletedXorFailed ==
    /\ ~(failure.raised /\ ResultPositions # {})
    /\ (pc = "Completed") <=> (ResultPositions # {})
    /\ (pc = "Failed") <=> failure.raised
    /\ ExecutionFailed =>
          /\ ~SandboxReturnedResult
          /\ data.sent
          /\ resp = NoResp \/ (resp.kind = "http" /\ resp.body_kind # "object")
    /\ SandboxReturnedResult => pc = "Completed"

\* the sandbox answered 200 with a body that is no JSON object: the execution
\* failure is raised and only status events were emitted, no mapping
C18_Witness ==
    /\ ExecutionFailed
    /\ resp.kind = "http" /\ resp.status = 200
    /\ emitted = status_items(send_status_func, <<"**Generate code snippet** for ", query>>)
                    \o status_items(send_status_func, <<"**Running code snippet**">>)

----------------------------------------------------------------------------
(* C14 *)

\* the result mappings among the items
Mappings(items) == SelectSeq(items, LAMBDA it : it.kind = "result")

----------------------------------------------------------------------------
(* C15 *)

\* C15 as stated: concurrent invocations share no mutable state but the file
\* store, also when the callers rely on the default tracer: the dict one
\* invocation hands to its model call is not the dict the other hands to its
\* own, and an invocation starts with a tracer holding nothing of another's.
C15_AsStated ==
    other.pc # "Absent" =>
        /\ (pc # "Idle" /\ other.pc # "Idle") => tracer # other.tracer
        /\ pc = "Idle" => heap[tracer] = {}
        /\ heap[tracer] \subseteq {query}

----------------------------------------------------------------------------
(* C17 *)

\* C17 as stated: every failure that ends an invocation is one of the two
\* pipeline-level kinds, a ValueError "Failed to generate code for <query>
\* ..." or "Failed to run code for <query> ...", embedding the query; no
\* failure of any phase leaves run_code unwrapped.
C17_AsStated ==
    failure.raised =>
        /\ failure.type = "ValueError"
        /\ failure.msg[1] \in {"Failed to generate code for ", "Failed to run code for "}
        /\ Len(failure.msg) >= 2
        /\ failure.msg[2] = query

----------------------------------------------------------------------------
(* C19 *)

\* C19: when the model call, each lookup, the listener and the sandbox request
\* each return or raise, every invocation reaches Completed or Failed and then
\* takes no further step; the lookups made never exceed the requested names.
C19_EveryInvocationEnds ==
    /\ <>RunOver
    /\ [][~RunOver]_vars
    /\ [](input_files.j = "list" => lookups_done <= Len(input_files.l))

\* a run that ended after as many lookups as names were requested, and one
\* was requested twice
C19_Witness ==
    /\ RunOver
    /\ input_files.j = "list"
    /\ Len(input_files.l) = 2
    /\ input_files.l[1] = input_files.l[2]
    /\ lookups_done = 2

----------------------------------------------------------------------------
(* C20 *)

\* the input_links field of a reply, as generate_python_code returns it
LinksOf(r) == dict_get(r.obj, "input_links", JList(<<>>))

\* C20: the request sent to the sandbox depends only on the normalized code
\* and the artifacts resolved from input_files: its body is exactly {code,
\* files}, and a reply that differs in input_links only leads to the same
\* payload, the same lookups and the same result or failure.
C20_RequestDependsOnCodeAndFilesOnly ==
    /\ data.sent =>
          /\ DOMAIN data = {"sent", "code", "files"}
          /\ data.code = clean_code_python(log[Len(log) - OpCount(log, "result")].name)
          /\ data.files = ArtifactsOf(user, input_files.l)
    /\ (pair.run = 2 /\ pair.varied = "links") =>
          /\ ~RunOver => ENABLED (SecondRun \/ ModelRepliesAgain)
          /\ (response # NoReply /\ response.kind = "object") =>
                /\ response # pair.reply
                /\ LinksOf(response) # LinksOf(pair.reply)
          /\ RunOver =>
                /\ pc = pair.first.pc
                /\ data = pair.first.data
                /\ log = pair.first.log
                /\ result = pair.first.result
                /\ emitted = pair.first.emitted
                /\ failure = pair.first.failure

\* the first run was given no input_links, the second run a link: both sent
\* the same request with a file and completed with the same mapping
C20_Witness ==
    /\ pair.run = 2 /\ pair.varied = "links"
    /\ pc = "Completed"
    /\ LinksOf(pair.reply) = JList(<<>>)
    /\ input_links = JList(<< <<"https://x">> >>)
    /\ pair.first.input_links = JList(<<>>)
    /\ data.files # <<>>
    /\ data = pair.first.data
    /\ emitted = pair.first.emitted

====
